---- MODULE Spec2Model ----
(***************************************************************************)
(* A model of soap-node-mongo: the MongoSource facade (current revision,   *)
(* src/src/mongo.source.ts lines 465-970), its session and transaction     *)
(* lifecycle, its six data operations with their performance-monitor       *)
(* instrumentation and error normalisation, and the performance monitor    *)
(* (MongoPerformanceMonitorImpl / BlankPerformanceMonitor).                *)
(* The MongoMigrationManager (src/src/mongo.migration.ts) is modelled next  *)
(* to it: its calls are awaited one at a time and each is one step.        *)
(* The stateless components (MongoWhereParser, MongoQueryFactory,          *)
(* MongoFieldResolver) are operators computed as the code computes them,   *)
(* and the MongoSessionManager is modelled with its registry.              *)
(*                                                                         *)
(* JavaScript runs the body of an async function synchronously up to its   *)
(* first await, so every action below is one such synchronous segment:     *)
(* actions named ...Call / Find / Insert ... run from the call to the      *)
(* first suspension, actions named ...Done / ...Resume / Complete... run   *)
(* from the resumption to the return or throw.                             *)
(***************************************************************************)
EXTENDS Integers, Sequences, FiniteSets, TLC

\* ---------------------------------------------------------------- bounds
MaxSessions == 2        \* native sessions client.startSession() may create
MaxInFlight == 2        \* calls suspended at an await at the same time
MaxOps      == 3        \* operations a monitor is asked to time in one behaviour
MaxDocs     == 3        \* documents in one insert batch
MaxCap      == 2        \* largest maxMetrics a bare monitor is configured with
MaxUnits    == 2        \* migration units (ids and versions 1..MaxUnits)

\* ------------------------------------------------------ program constants
DuplicateKeyCode == 11000
InvalidDataCode  == 121
OtherCode        == 50
DefaultBatchSize == 10

VARIABLES
  monitoring,        \* performanceConfig.enabled: Impl (TRUE) or Blank monitor
  maxMetrics,        \* config.maxMetrics
  collectorThrows,   \* a config.metricsCollector is set and throws when called
  metrics,           \* MongoPerformanceMonitorImpl.metrics
  activeOperations,  \* MongoPerformanceMonitorImpl.activeOperations (its keys)
  nextToken,         \* the next fresh operationId startOperation generates
  collected,         \* every metric endOperation has recorded (what a configured
                     \* metricsCollector has been handed), in order
  currentSession,    \* MongoSource.currentSession (0: null / undefined)
  nativeSessions,    \* the ClientSessions client.startSession() has returned
  sinceEnd,          \* client.startSession() invocations since endSession last completed
  inflight,          \* the calls suspended at an await, by slot
  cleared,           \* the operation ids clearMetrics() dropped from activeOperations
  clearedAt,         \* how many metrics had been recorded when clearMetrics() last ran
  last,              \* the call that returned or threw in the latest step (NoCall: none did)
  validateBeforeRun, \* MigrationConfig.validateBeforeRun
  maxBatchSize,      \* MigrationConfig.maxBatchSize (0: not set)
  migrations,        \* MongoMigrationManager.migrations, in registration order
  records,           \* the documents of the bookkeeping collection, in insertion order
  upDone,            \* the unit ids whose change the database carries: up completed, down not since
  mlast,             \* the manager call made in the latest step and what it returned
  sent,              \* the native update call each suspended update handed to the collection
  arg,               \* the arguments of the latest call on a query factory, parser or resolver
  res,               \* what that call returned or threw
  sessions,          \* MongoSessionManager.sessions: the registry, as a set of [id, session]
  created            \* the MongoDatabaseSession objects createSession() has made, in order

vars == << monitoring, maxMetrics, collectorThrows, metrics, activeOperations, nextToken,
           collected, cleared, clearedAt, currentSession, nativeSessions, sinceEnd,
           inflight, last, validateBeforeRun, maxBatchSize, migrations, records,
           upDone, mlast, sent, arg, res, sessions, created >>

\* The migration manager, its bookkeeping collection and what is observed of them.
migVars == << validateBeforeRun, maxBatchSize, migrations, records, upDone, mlast >>

\* The latest call on a stateless component: a query factory, a where parser
\* or a field resolver.
libVars == << arg, res >>

\* A MongoSessionManager and the sessions it has made.
regVars == << sessions, created >>

\* What a call on a MongoSource leaves alone, whichever call it is.
restVars == << migVars, libVars, regVars >>

monVars == << metrics, activeOperations, nextToken, collected, cleared, clearedAt >>

\* The options a MongoSource or a monitor is constructed with.
cfgVars == << monitoring, maxMetrics, collectorThrows >>

DataOps    == { "find", "count", "aggregate", "update", "insert", "remove" }
SessionOps == { "startSession", "endSession", "startTransaction",
                "commitTransaction", "rollbackTransaction" }
Slots      == 1..MaxInFlight

\* ------------------------------------------------- the native driver
\* mongoDb.ClientSession's transaction state, as far as the calls made by
\* MongoSource can observe it (STARTING/IN_PROGRESS and COMMITTED/COMMITTED_EMPTY
\* behave alike for these calls and are merged).
TxnStates == { "NO_TRANSACTION", "IN_PROGRESS", "COMMITTED", "ABORTED" }

NewNativeSession == [ ended |-> FALSE, txn |-> "NO_TRANSACTION" ]

\* session.commitTransaction(): throws when none was started or after an abort.
NativeCommitOk(s) == nativeSessions[s].txn \in { "IN_PROGRESS", "COMMITTED" }

\* session.abortTransaction(): throws unless a transaction is in progress.
NativeAbortOk(s) == nativeSessions[s].txn = "IN_PROGRESS"

\* session.endSession(): aborts a transaction in progress and releases the session.
NativeEndSession(ns, s) ==
  [ ns EXCEPT ![s] = [ ended |-> TRUE,
                       txn   |-> IF ns[s].txn = "IN_PROGRESS" THEN "ABORTED"
                                 ELSE ns[s].txn ] ]

\* ------------------------------------------------- performance monitor
\* The monitor's fields as one value, so that a handler can apply
\* startOperation and endOperation one after the other within a step; threw
\* tells whether the monitor call just applied threw.
Mon == [ metrics |-> metrics, active |-> activeOperations,
         next |-> nextToken, collected |-> collected, cleared |-> cleared,
         clearedAt |-> clearedAt, threw |-> FALSE ]

SetMon(m) ==
  /\ metrics' = m.metrics
  /\ activeOperations' = m.active
  /\ nextToken' = m.next
  /\ collected' = m.collected
  /\ cleared' = m.cleared
  /\ clearedAt' = m.clearedAt

\* Array.prototype.slice(start) with a relative start: a negative start counts
\* from the end, and -0 is 0, the start of the array.
Slice(arr, start) ==
  LET len  == Len(arr)
      from == IF start < 0 THEN (IF len + start < 0 THEN 0 ELSE len + start)
              ELSE (IF start > len THEN len ELSE start)
  IN  SubSeq(arr, from + 1, len)

\* startOperation: '' (0) when disabled, else a fresh id entered in activeOperations.
OperationId(m) == IF monitoring THEN m.next ELSE 0

\* A startOperation that registers the operation whether or not the monitor
\* is enabled.
StartOperationAlways(m, operation) ==
  [ m EXCEPT !.active = @ \cup { [ id |-> m.next, operation |-> operation ] },
             !.next = @ + 1 ]

StartOperation(m, operation) ==
  IF ~monitoring THEN m
  ELSE [ m EXCEPT !.active = @ \cup { [ id |-> m.next, operation |-> operation ] },
                  !.next = @ + 1 ]

\* activeOperations.get(operationId)
ActiveOp(m, operationId) == { a \in m.active : a.id = operationId }

\* An endOperation that never calls the metricsCollector.
EndOperationSilent(m, operationId, error) ==
  IF ~monitoring \/ operationId = 0 \/ ActiveOp(m, operationId) = {}
  THEN [ m EXCEPT !.threw = FALSE ]
  ELSE [ m EXCEPT !.metrics = Append(@, [ id |-> operationId,
                                          operation |-> "find", success |-> ~error ]),
                  !.active = @ \ ActiveOp(m, operationId),
                  !.threw = FALSE ]

\* endOperation(operationId, documentCount, error): the metric is pushed and
\* the list cut to its last maxMetrics entries, then the metricsCollector is
\* called, and only after it has returned is the operation removed from
\* activeOperations; a collector that throws leaves it there.
EndOperation(m, operationId, error) ==
  IF ~monitoring \/ operationId = 0 THEN [ m EXCEPT !.threw = FALSE ]
  ELSE IF ActiveOp(m, operationId) = {} THEN [ m EXCEPT !.threw = FALSE ]
  ELSE LET activeOp == CHOOSE a \in ActiveOp(m, operationId) : TRUE
           metric   == [ id |-> operationId, operation |-> activeOp.operation,
                         success |-> ~error ]
           pushed   == Append(m.metrics, metric)
       IN  [ m EXCEPT !.metrics = IF Len(pushed) > maxMetrics
                                  THEN Slice(pushed, 0 - maxMetrics)
                                  ELSE pushed,
                      !.collected = Append(@, metric),
                      !.active = IF collectorThrows THEN @ ELSE @ \ { activeOp },
                      !.threw = collectorThrows ]

\* A clearMetrics that empties the metric list and leaves activeOperations alone.
ClearMetricsOnly(m) ==
  IF ~monitoring THEN m
  ELSE [ m EXCEPT !.metrics = << >>,
                  !.cleared = @ \cup { a.id : a \in m.active },
                  !.clearedAt = Len(m.collected) ]

\* clearMetrics()
ClearMetrics(m) ==
  IF ~monitoring THEN m
  ELSE [ m EXCEPT !.metrics = << >>, !.active = {},
                  !.cleared = @ \cup { a.id : a \in m.active },
                  !.clearedAt = Len(m.collected) ]

\* getMetrics()
GetMetrics == metrics

\* ------------------------------------------------- call records
NoError == [ name |-> "none", code |-> 0, writeErrors |-> << >> ]

\* A suspended call: the session its native call was handed (sess), the
\* current session when it was issued (cur), and for insert the batch size,
\* the ordered option and the session the caller put in query.options (opt).
Free == [ op |-> "none", token |-> 0, sess |-> 0, cur |-> 0, opt |-> 0,
          n |-> 0, ordered |-> TRUE ]

NoCall == [ op |-> "none", result |-> "ok", err |-> NoError, token |-> 0,
            pre |-> 0, preTxn |-> "NONE", ret |-> 0, n |-> 0, ordered |-> TRUE,
            inserted |-> << >>, failed |-> << >> ]

TxnOf(s) == IF s = 0 THEN "NONE" ELSE nativeSessions[s].txn

\* A session-lifecycle call that has returned or thrown.
SessionCall(op, result, pre, preTxn, ret) ==
  [ NoCall EXCEPT !.op = op, !.result = result, !.pre = pre,
                  !.preTxn = preTxn, !.ret = ret ]

\* A suspended call takes the lowest free slot.
FreeSlot(c) ==
  /\ inflight[c].op = "none"
  /\ \A d \in Slots : d < c => inflight[d].op # "none"

\* ------------------------------------------------- session lifecycle
\* A startSession() that asks the client for a session on every call.
StartSessionAnew ==
  [ session  |-> Len(nativeSessions) + 1,
    sessions |-> Append(nativeSessions, NewNativeSession),
    created  |-> 1 ]

\* The body of startSession(): reuse the open session or ask the client for one.
StartSessionBody ==
  IF currentSession = 0
  THEN [ session  |-> Len(nativeSessions) + 1,
         sessions |-> Append(nativeSessions, NewNativeSession),
         created  |-> 1 ]
  ELSE [ session  |-> currentSession, sessions |-> nativeSessions, created |-> 0 ]

\* startSession(): no await, so the whole call is one step.
StartSession ==
  /\ currentSession = 0 => Len(nativeSessions) < MaxSessions
  /\ currentSession' = StartSessionBody.session
  /\ nativeSessions' = StartSessionBody.sessions
  /\ sinceEnd' = sinceEnd + StartSessionBody.created
  /\ last' = SessionCall("startSession", "ok", currentSession,
                         TxnOf(currentSession), StartSessionBody.session)
  /\ UNCHANGED << inflight, cfgVars >>
  /\ UNCHANGED monVars
  /\ UNCHANGED << restVars, sent >>

\* endSession(), up to its await: nothing to do without a session, else the
\* native endSession is invoked on the current session.
EndSessionCall(c) ==
  /\ FreeSlot(c)
  /\ IF currentSession = 0
     THEN /\ last' = SessionCall("endSession", "ok", 0, "NONE", 0)
          /\ sinceEnd' = 0
          /\ UNCHANGED << nativeSessions, inflight >>
     ELSE /\ nativeSessions' = NativeEndSession(nativeSessions, currentSession)
          /\ inflight' = [ inflight EXCEPT ![c] =
                             [ Free EXCEPT !.op = "endSession",
                                           !.sess = currentSession,
                                           !.cur = currentSession ] ]
          /\ last' = NoCall
          /\ UNCHANGED sinceEnd
  /\ UNCHANGED << currentSession, cfgVars >>
  /\ UNCHANGED monVars
  /\ UNCHANGED << restVars, sent >>

\* An endSession() that returns without clearing this.currentSession.
EndSessionKeepsSession(c) ==
  /\ inflight[c].op = "endSession"
  /\ sinceEnd' = 0
  /\ inflight' = [ inflight EXCEPT ![c] = Free ]
  /\ last' = SessionCall("endSession", "ok", inflight[c].sess, "NONE", 0)
  /\ UNCHANGED << currentSession, nativeSessions, cfgVars >>
  /\ UNCHANGED monVars
  /\ UNCHANGED << restVars, sent >>

\* endSession(), after its await: this.currentSession = null.
EndSessionDone(c) ==
  /\ inflight[c].op = "endSession"
  /\ currentSession' = 0
  /\ sinceEnd' = 0
  /\ inflight' = [ inflight EXCEPT ![c] = Free ]
  /\ last' = SessionCall("endSession", "ok", inflight[c].sess, "NONE", 0)
  /\ UNCHANGED << nativeSessions, cfgVars >>
  /\ UNCHANGED monVars
  /\ UNCHANGED << restVars, sent >>

\* this.currentSession.startTransaction(options) on session s of sessions ns:
\* the driver throws MongoTransactionError when a transaction is in progress.
RunStartTransaction(ns, s) ==
  IF ns[s].txn # "IN_PROGRESS"
  THEN [ result |-> "ok", sessions |-> [ ns EXCEPT ![s].txn = "IN_PROGRESS" ] ]
  ELSE [ result |-> "MongoTransactionError", sessions |-> ns ]

\* startTransaction(), up to its first await: with a session the native
\* startTransaction runs at once, without one startSession() runs and is awaited.
StartTransactionCall(c) ==
  /\ IF currentSession # 0
     THEN LET r == RunStartTransaction(nativeSessions, currentSession)
          IN  /\ nativeSessions' = r.sessions
              /\ last' = SessionCall("startTransaction", r.result, currentSession,
                                     TxnOf(currentSession), 0)
              /\ UNCHANGED << currentSession, sinceEnd, inflight >>
     ELSE /\ FreeSlot(c)
          /\ Len(nativeSessions) < MaxSessions
          /\ currentSession' = StartSessionBody.session
          /\ nativeSessions' = StartSessionBody.sessions
          /\ sinceEnd' = sinceEnd + StartSessionBody.created
          /\ inflight' = [ inflight EXCEPT ![c] =
                             [ Free EXCEPT !.op = "startTransaction" ] ]
          /\ last' = NoCall
  /\ UNCHANGED cfgVars
  /\ UNCHANGED monVars
  /\ UNCHANGED << restVars, sent >>

\* startTransaction(), after awaiting startSession(): this.currentSession is
\* read again; it is null when an endSession() completed in between.
StartTransactionResume(c) ==
  /\ inflight[c].op = "startTransaction"
  /\ inflight' = [ inflight EXCEPT ![c] = Free ]
  /\ IF currentSession = 0
     THEN /\ last' = SessionCall("startTransaction", "TypeError", 0, "NONE", 0)
          /\ UNCHANGED nativeSessions
     ELSE LET r == RunStartTransaction(nativeSessions, currentSession)
          IN  /\ nativeSessions' = r.sessions
              /\ last' = SessionCall("startTransaction", r.result, currentSession,
                                     TxnOf(currentSession), 0)
  /\ UNCHANGED << currentSession, sinceEnd, cfgVars >>
  /\ UNCHANGED monVars
  /\ UNCHANGED << restVars, sent >>

\* commitTransaction(): with a session the native commitTransaction is invoked,
\* whatever the state of its transaction; the driver's error is not caught.
CommitTransaction ==
  /\ IF currentSession = 0
     THEN /\ last' = SessionCall("commitTransaction", "ok", 0, "NONE", 0)
          /\ UNCHANGED nativeSessions
     ELSE /\ nativeSessions' =
               IF NativeCommitOk(currentSession)
               THEN [ nativeSessions EXCEPT ![currentSession].txn = "COMMITTED" ]
               ELSE nativeSessions
          /\ last' = SessionCall("commitTransaction",
                                 IF NativeCommitOk(currentSession) THEN "ok"
                                 ELSE "MongoTransactionError",
                                 currentSession, TxnOf(currentSession), 0)
  /\ UNCHANGED << currentSession, sinceEnd, inflight, cfgVars >>
  /\ UNCHANGED monVars
  /\ UNCHANGED << restVars, sent >>

\* rollbackTransaction(): likewise with the native abortTransaction.
RollbackTransaction ==
  /\ IF currentSession = 0
     THEN /\ last' = SessionCall("rollbackTransaction", "ok", 0, "NONE", 0)
          /\ UNCHANGED nativeSessions
     ELSE /\ nativeSessions' =
               IF NativeAbortOk(currentSession)
               THEN [ nativeSessions EXCEPT ![currentSession].txn = "ABORTED" ]
               ELSE nativeSessions
          /\ last' = SessionCall("rollbackTransaction",
                                 IF NativeAbortOk(currentSession) THEN "ok"
                                 ELSE "MongoTransactionError",
                                 currentSession, TxnOf(currentSession), 0)
  /\ UNCHANGED << currentSession, sinceEnd, inflight, cfgVars >>
  /\ UNCHANGED monVars
  /\ UNCHANGED << restVars, sent >>

\* ------------------------------------------------- error normalisation
\* What the store can throw from a native call.  insertMany reports per-item
\* failures as a MongoBulkWriteError that carries writeErrors (each with the
\* index of the failing document) and the code of the first of them.
PlainErrors ==
  { [ name |-> "MongoServerError", code |-> DuplicateKeyCode, writeErrors |-> << >> ],
    [ name |-> "MongoServerError", code |-> InvalidDataCode, writeErrors |-> << >> ],
    [ name |-> "MongoServerError", code |-> OtherCode, writeErrors |-> << >> ],
    [ name |-> "MongoNetworkError", code |-> 0, writeErrors |-> << >> ] }

\* The indices of S in ascending order.
Ascending(S) ==
  CHOOSE s \in [ 1..Cardinality(S) -> S ] :
    \A i, j \in 1..Cardinality(S) : i < j => s[i] < s[j]

\* The write errors the store reports for a batch of n documents: an ordered
\* batch stops at its first failure, an unordered batch flags every failure.
WriteErrorSets(n, ordered) ==
  IF ordered THEN { << i >> : i \in 0..(n - 1) }
  ELSE { Ascending(S) : S \in (SUBSET (0..(n - 1))) \ { {} } }

BulkErrors(n, ordered) ==
  { [ name |-> "MongoBulkWriteError", code |-> DuplicateKeyCode, writeErrors |-> w ] :
      w \in WriteErrorSets(n, ordered) }

\* An error that does not come from the store (a compiler or factory error,
\* 'No documents to insert', what a metricsCollector throws): a plain Error
\* without a code.
LocalError == [ name |-> "Error", code |-> 0, writeErrors |-> << >> ]

\* throwCollectionError(error, options): the kind of CollectionError thrown.
ThrowCollectionError(error) ==
  IF error.name = "MongoServerError" /\ error.code = DuplicateKeyCode
  THEN "DuplicateError"
  ELSE IF error.name = "MongoServerError" /\ error.code = InvalidDataCode
  THEN "InvalidDataError"
  ELSE "CollectionError"

\* ------------------------------------------------- conditions and filters
\* What Where.build() yields: a Condition (left, operator, right) or a
\* VariedCondition (conditions, operator); NoCondition is a Where that is
\* missing or builds to nothing.
Fields == { "status" }
Values == { "active", "inactive" }

NoCondition == [ kind |-> "none", left |-> "", operator |-> "", right |-> "",
                 conditions |-> << >> ]

Condition(left, operator, right) ==
  [ kind |-> "condition", left |-> left, operator |-> operator, right |-> right,
    conditions |-> << >> ]

VariedCondition(conditions, operator) ==
  [ kind |-> "varied", left |-> "", operator |-> operator, right |-> "",
    conditions |-> conditions ]

\* A MongoDB filter: {} (all), { field: value } and { field: { $op: value } }
\* (match), { $and: [...] } and { $or: [...] }.
MatchAll == [ kind |-> "all", field |-> "", op |-> "", value |-> << >>, items |-> << >> ]

Match(field, op, value) ==
  [ kind |-> "match", field |-> field, op |-> op, value |-> value, items |-> << >> ]

Junction(kind, items) ==
  [ kind |-> kind, field |-> "", op |-> "", value |-> << >>, items |-> items ]

\* createCondition(field, operator, value): the switch over the operator (the
\* like case, a pattern rewrite, is left out); a value is held as the list of
\* its alternatives, so $in and $nin keep it and the others carry the one value.
CreateCondition(field, operator, value) ==
  CASE operator = "eq"  -> Match(field, "eq", << value >>)
    [] operator = "ne"  -> Match(field, "$ne", << value >>)
    [] operator = "gt"  -> Match(field, "$gt", << value >>)
    [] operator = "gte" -> Match(field, "$gte", << value >>)
    [] operator = "lt"  -> Match(field, "$lt", << value >>)
    [] operator = "lte" -> Match(field, "$lte", << value >>)
    [] operator = "in"  -> Match(field, "$in", << value >>)
    [] operator = "nin" -> Match(field, "$nin", << value >>)
    [] OTHER            -> Match(field, "eq", << value >>)

RECURSIVE ParseCondition(_)
\* parseCondition(condition): a VariedCondition maps its children and wraps
\* them in $and or $or; with any other operator it falls through every type
\* guard to the final return {}.
ParseCondition(condition) ==
  IF condition.kind = "none" THEN MatchAll
  ELSE IF condition.kind = "varied"
  THEN LET parsedConditions ==
             [ i \in 1..Len(condition.conditions) |->
                 ParseCondition(condition.conditions[i]) ]
       IN  IF condition.operator = "and" THEN Junction("and", parsedConditions)
           ELSE IF condition.operator = "or" THEN Junction("or", parsedConditions)
           ELSE MatchAll
  ELSE CreateCondition(condition.left, condition.operator, condition.right)

\* parse(where): what it returns (threw = "none") or throws.
Parse(where) == [ threw |-> "none", filter |-> ParseCondition(where) ]

\* ------------------------------------------------- the query factory
MaxItems == 3           \* entries in each of the arrays handed to createUpdateQuery

\* UpdateMethod.UpdateOne, UpdateMethod.UpdateMany, and a tag that is neither.
UpdateMethods == { "UpdateOne", "UpdateMany" }
MethodTags    == UpdateMethods \cup { "ReplaceOne" }

\* updates[i] when i is past the end of the array.
Undefined == "undefined"

\* An update document { status: value } is named by its value.
ItemAt(updates, i) == IF i <= Len(updates) THEN updates[i] ELSE Undefined

\* One compiled update: its filter (where[i] built, resolved with no field
\* mappings and parsed), its { $set: updates[i] } and its upsert flag.
Operation(kind, where, update, upsert) ==
  [ kind |-> kind, filter |-> Parse(where).filter, update |-> update,
    upsert |-> upsert ]

Thrown(error) == [ threw |-> error, batch |-> FALSE, items |-> << >> ]

\* createUpdateQuery(updates, where, methods): a batch of tagged operations
\* when methods has more than one entry, else one descriptor; where[i].build()
\* on a missing entry is a TypeError.
CreateUpdateQuery(updates, where, methods) ==
  LET updatesSize == Len(updates)
      whereSize   == Len(where)
      methodsSize == Len(methods)
  IN  IF methodsSize > 1
      THEN IF methodsSize + updatesSize + whereSize # 3 * methodsSize
           THEN Thrown("InconsistentUpdateParamsError")
           ELSE IF whereSize < methodsSize
           THEN Thrown("TypeError")
           ELSE [ threw |-> "none", batch |-> TRUE,
                  items |-> [ i \in 1..methodsSize |->
                              IF methods[i] = "UpdateOne"
                              THEN Operation("updateOne", where[i],
                                             ItemAt(updates, i), TRUE)
                              ELSE Operation("updateMany", where[i],
                                             ItemAt(updates, i), FALSE) ] ]
      ELSE IF methodsSize = 1 /\ methods[1] \in UpdateMethods
           THEN IF whereSize = 0
                THEN Thrown("TypeError")
                ELSE [ threw |-> "none", batch |-> FALSE,
                       items |-> << Operation(methods[1], where[1],
                                              ItemAt(updates, 1),
                                              methods[1] = "UpdateOne") >> ]
           ELSE Thrown("UnknownUpdateMethodError")

\* ------------------------------------------------- the native update
\* A DbQuery handed to update(): { where, update } (format "whereUpdate", one
\* condition and one update document) or { updates, where, methods }.
DbQuery(format, updates, where, methods) ==
  [ format |-> format, updates |-> updates, where |-> where, methods |-> methods ]

NoQuery == DbQuery("none", << >>, << >>, << >>)

\* The update document {}.
EmptyUpdate == "{}"

\* No native update call.
NoNative == [ query |-> NoQuery, method |-> "none", filter |-> MatchAll,
              update |-> EmptyUpdate, upsert |-> FALSE, threw |-> "none" ]

\* update(query) up to its await: the error the query factory threw, or the
\* filter, update and options handed to collection.updateMany.  An array of
\* operations has no filter, update or options property, so a batch leaves
\* all three empty.
UpdatePlan(query) ==
  IF query.format = "whereUpdate"
  THEN [ NoNative EXCEPT !.query = query, !.method = "updateMany",
                         !.filter = Parse(query.where[1]).filter,
                         !.update = query.updates[1] ]
  ELSE LET mongoQuery == CreateUpdateQuery(query.updates, query.where, query.methods)
       IN  IF mongoQuery.threw # "none"
           THEN [ NoNative EXCEPT !.query = query, !.threw = mongoQuery.threw ]
           ELSE IF mongoQuery.batch
           THEN [ NoNative EXCEPT !.query = query, !.method = "updateMany" ]
           ELSE [ NoNative EXCEPT !.query = query, !.method = "updateMany",
                                  !.filter = mongoQuery.items[1].filter,
                                  !.update = mongoQuery.items[1].update,
                                  !.upsert = mongoQuery.items[1].upsert ]

\* ------------------------------------------------- the collection
\* What the store does with an update, on a collection of documents that hold
\* a status each (a document is named by its status).
Collections == UNION { [ 1..n -> Values ] : n \in 0..MaxDocs }

RECURSIVE Matches(_, _)
Matches(doc, filter) ==
  CASE filter.kind = "all" -> TRUE
    [] filter.kind = "and" ->
         \A i \in 1..Len(filter.items) : Matches(doc, filter.items[i])
    [] filter.kind = "or" ->
         \E i \in 1..Len(filter.items) : Matches(doc, filter.items[i])
    [] filter.kind = "match" /\ filter.op \in { "eq", "$in" } ->
         \E i \in 1..Len(filter.value) : doc = filter.value[i]
    [] filter.kind = "match" /\ filter.op \in { "$ne", "$nin" } ->
         \A i \in 1..Len(filter.value) : doc # filter.value[i]
    [] OTHER -> FALSE

Matched(docs, filter) == { i \in 1..Len(docs) : Matches(docs[i], filter) }

\* updateOne / updateMany with { $set: { status: value } }: the documents
\* afterwards and the indices of those whose content changed (modifiedCount
\* is their number); with upsert and no match a document is inserted.
StoreUpdate(docs, method, filter, value, upsert) ==
  LET matched == Matched(docs, filter)
      hit     == IF method = "updateOne" /\ matched # {}
                 THEN { CHOOSE i \in matched : \A j \in matched : i <= j }
                 ELSE matched
  IN  IF matched = {} /\ upsert
      THEN [ documents |-> Append(docs, value), modified |-> {} ]
      ELSE [ documents |-> [ i \in 1..Len(docs) |->
                             IF i \in hit THEN value ELSE docs[i] ],
             modified  |-> { i \in hit : docs[i] # value } ]

RECURSIVE BulkWrite(_, _)
\* bulkWrite(operations): the operations applied one after the other.
BulkWrite(docs, operations) ==
  IF operations = << >> THEN docs
  ELSE BulkWrite(StoreUpdate(docs, Head(operations).kind, Head(operations).filter,
                             Head(operations).update, Head(operations).upsert).documents,
                 Tail(operations))

\* The driver refuses an update document without an atomic operator, and the
\* server one whose $set is not a document.
InvalidArgument == [ name |-> "MongoInvalidArgumentError", code |-> 0,
                     writeErrors |-> << >> ]

\* ------------------------------------------------- data operations
\* A session of the caller's own, not one this source created.
ExternalSession == 0 - 1

\* Options that are passed on as the caller or the factory built them.
AttachNothing(opt) == opt

\* options.session of the native call: the current session when there is one,
\* else whatever the options held already (opt; 0: no session).
AttachSession(opt) == IF currentSession # 0 THEN currentSession ELSE opt

\* A handler's catch block: endOperation(operationId, undefined, error), then
\* throwCollectionError(error).  When endOperation throws, its error leaves the
\* handler as it is and throwCollectionError is not reached.
OnFailure(m, operationId, error) ==
  LET ended == EndOperation(m, operationId, TRUE)
  IN  [ mon    |-> ended,
        result |-> IF ended.threw THEN "Error" ELSE ThrowCollectionError(error) ]

\* The tail of a handler's try block: endOperation(operationId, count), then
\* return.  endOperation is inside the try, so when it throws the catch block
\* runs with its error.
OnSuccess(m, operationId) ==
  LET ended == EndOperation(m, operationId, FALSE)
  IN  IF ended.threw THEN OnFailure(ended, operationId, LocalError)
      ELSE [ mon |-> ended, result |-> "ok" ]

\* A data-operation call that has returned or thrown; error is what the
\* store threw (NoError: it returned), or LocalError when it was not reached.
DataCall(r, result, error) ==
  [ NoCall EXCEPT !.op = r.op, !.result = result, !.err = error, !.token = r.token,
                  !.pre = r.cur, !.n = r.n, !.ordered = r.ordered ]

\* A handler from its call to its await: startOperation, then either the
\* query (or the batch) is rejected and the catch block runs at once, or the
\* session is attached and the native call is issued.
Issue(c, op, rejected, n, ordered, opt) ==
  /\ monitoring => nextToken <= MaxOps
  /\ LET r == [ op |-> op, token |-> OperationId(Mon),
                sess |-> AttachSession(opt), cur |-> currentSession,
                opt |-> opt, n |-> n, ordered |-> ordered ]
         started == StartOperation(Mon, op)
     IN  IF rejected
         THEN /\ SetMon(OnFailure(started, r.token, LocalError).mon)
              /\ last' = DataCall(r, OnFailure(started, r.token, LocalError).result,
                                  LocalError)
              /\ UNCHANGED inflight
         ELSE /\ FreeSlot(c)
              /\ SetMon(started)
              /\ inflight' = [ inflight EXCEPT ![c] = r ]
              /\ last' = NoCall
  /\ UNCHANGED << currentSession, nativeSessions, sinceEnd, cfgVars >>
  /\ UNCHANGED restVars

Find(c) ==
  /\ \E rejected \in BOOLEAN : Issue(c, "find", rejected, 0, TRUE, 0)
  /\ UNCHANGED sent

Count(c) ==
  /\ \E rejected \in BOOLEAN : Issue(c, "count", rejected, 0, TRUE, 0)
  /\ UNCHANGED sent

Aggregate(c) ==
  /\ \E rejected \in BOOLEAN : Issue(c, "aggregate", rejected, 0, TRUE, 0)
  /\ UNCHANGED sent

Remove(c) ==
  /\ \E rejected \in BOOLEAN : Issue(c, "remove", rejected, 0, TRUE, 0)
  /\ UNCHANGED sent

\* update(query) with one of the given queries: rejected when the query
\* factory throws, else the planned call is handed to collection.updateMany.
UpdateWith(c, queries) ==
  \E query \in queries :
    /\ Issue(c, "update", UpdatePlan(query).threw # "none", 0, TRUE, 0)
    /\ sent' = IF UpdatePlan(query).threw # "none" THEN sent
               ELSE [ sent EXCEPT ![c] = UpdatePlan(query) ]

\* An update in the { where, update } format, and one the factory rejects
\* (no method given).
PlainUpdates ==
  { DbQuery("whereUpdate", << "inactive" >>,
            << Condition("status", "eq", "active") >>, << >>),
    DbQuery("params", << "inactive" >>,
            << Condition("status", "eq", "active") >>, << >>) }

Update(c) == UpdateWith(c, PlainUpdates)

\* insert of a batch of one of the given sizes: query.options (ordered, and a
\* session if the caller put one there) are copied into the native options, and
\* the batch is rejected when it holds no document.
InsertBatch(c, sizes) ==
  /\ \E n \in sizes, ordered \in BOOLEAN, opt \in { 0, ExternalSession } :
       Issue(c, "insert", n = 0, n, ordered, opt)
  /\ UNCHANGED sent

Insert(c) == InsertBatch(c, 0..MaxDocs)

\* insert of a single document (or of none).
InsertOne(c) == InsertBatch(c, 0..1)

\* The catch block of insert: the insertedDocuments and failedDocuments it
\* hands to throwCollectionError.  Documents are named by their index in the
\* batch.
InsertPartition(n, ordered, writeErrors) ==
  LET documents == [ i \in 1..n |-> i - 1 ]
  IN  IF writeErrors = << >>
      THEN [ inserted |-> << >>, failed |-> << >> ]
      ELSE IF ordered /\ Len(writeErrors) = 1
      THEN [ inserted |-> SubSeq(documents, 1, writeErrors[1]),
             failed   |-> << documents[writeErrors[1] + 1] >> ]
      ELSE [ inserted |-> << >>, failed |-> documents ]

\* A handler after its await: the native call returned or threw error.
Settle(c, error) ==
  LET r == inflight[c]
  IN  /\ inflight' = [ inflight EXCEPT ![c] = Free ]
      /\ IF error = NoError
         THEN /\ SetMon(OnSuccess(Mon, r.token).mon)
              /\ last' = DataCall(r, OnSuccess(Mon, r.token).result, NoError)
         ELSE /\ SetMon(OnFailure(Mon, r.token, error).mon)
              /\ last' = [ DataCall(r, OnFailure(Mon, r.token, error).result, error) EXCEPT
                             !.inserted = IF r.op = "insert"
                                          THEN InsertPartition(r.n, r.ordered,
                                                 error.writeErrors).inserted
                                          ELSE << >>,
                             !.failed   = IF r.op = "insert"
                                          THEN InsertPartition(r.n, r.ordered,
                                                 error.writeErrors).failed
                                          ELSE << >> ]
      /\ UNCHANGED << currentSession, nativeSessions, sinceEnd, cfgVars >>
      /\ UNCHANGED restVars

\* What collection.updateMany can answer to the call it was handed: an update
\* document that is empty or whose $set is undefined is refused.
UpdateAnswers(native) ==
  IF native.update = EmptyUpdate THEN { InvalidArgument }
  ELSE IF native.update = Undefined THEN PlainErrors
  ELSE { NoError } \cup PlainErrors

\* find, count, aggregate, update and remove resume alike.
Complete(c) ==
  /\ inflight[c].op \in DataOps \ { "insert" }
  /\ \E error \in (IF inflight[c].op = "update" THEN UpdateAnswers(sent[c])
                    ELSE { NoError } \cup PlainErrors) :
       Settle(c, error)
  /\ sent' = [ sent EXCEPT ![c] = NoNative ]

CompleteInsert(c) ==
  /\ inflight[c].op = "insert"
  /\ \E error \in { NoError } \cup PlainErrors
                  \cup BulkErrors(inflight[c].n, inflight[c].ordered) :
       Settle(c, error)
  /\ UNCHANGED sent

\* clearPerformanceMetrics()
ClearPerformanceMetrics ==
  /\ SetMon(ClearMetrics(Mon))
  /\ last' = NoCall
  /\ UNCHANGED << cfgVars, currentSession, nativeSessions, sinceEnd, inflight >>
  /\ UNCHANGED << restVars, sent >>

\* ------------------------------------------------- migration manager
\* Calls on a MongoMigrationManager are made one at a time, each awaited
\* before the next, so each call is one step.  A unit's up and down actions
\* and the calls on the bookkeeping collection are inputs of the step: each
\* either completes or throws.
UnitIds == 1..MaxUnits

\* A MongoMigration: reversible is its flag, down tells whether it defines down().
Units ==
  { [ id |-> i, version |-> v, reversible |-> k[1], down |-> k[2] ] :
      i \in UnitIds, v \in 1..MaxUnits,
      k \in { << TRUE, TRUE >>, << FALSE, TRUE >>, << TRUE, FALSE >> } }

\* What running one unit comes to: both its action and the bookkeeping call
\* complete, or the action (up / down) throws, or the bookkeeping call
\* (insertOne / deleteOne) throws after the action has completed.
Outcomes == { "ok", "actionThrows", "storeThrows" }

AllOk == [ u \in UnitIds |-> "ok" ]

NoMigrationError == [ kind |-> "none", id |-> 0 ]

\* A fresh MigrationResult.
EmptyResult ==
  [ success |-> TRUE, appliedCount |-> 0, skippedCount |-> 0, failedCount |-> 0,
    applied |-> << >>, failed |-> << >>, error |-> NoMigrationError ]

\* What a call has done so far: its MigrationResult, the documents inserted
\* into and the ids deleted from the bookkeeping collection, the ids whose up
\* and down were invoked (in order), those whose up (done) and down (undone)
\* ran to completion, and the status documents a rollback went through.
EmptyRun ==
  [ result |-> EmptyResult, inserted |-> << >>, deleted |-> << >>,
    ups |-> << >>, downs |-> << >>, done |-> {}, undone |-> {},
    tried |-> << >> ]

\* A catch block that swallows the error and returns the result as it stands.
CaughtSwallowed(run, kind, id) == run

\* A call that ended in the catch block of migrate / rollback / rollbackTo.
Caught(run, kind, id) ==
  [ run EXCEPT !.result.success = FALSE,
               !.result.error = [ kind |-> kind, id |-> id ] ]

NoManagerCall == [ op |-> "none", arg |-> 0, storeDown |-> FALSE, run |-> EmptyRun ]

\* Array.prototype.sort by version, ascending (sign = 1) or descending
\* (sign = -1); the sort is stable.
RECURSIVE SortByVersion(_, _)
SortByVersion(seq, sign) ==
  IF seq = << >> THEN << >>
  ELSE LET x    == Head(seq)
           rest == SortByVersion(Tail(seq), sign)
           k    == Cardinality({ i \in 1..Len(rest) :
                                   sign * rest[i].version < sign * x.version })
       IN  SubSeq(rest, 1, k) \o << x >> \o SubSeq(rest, k + 1, Len(rest))

\* getMigrations()
GetMigrations == SortByVersion(migrations, 1)

\* getMigrationStatus(): find().sort({ version: 1 })
GetMigrationStatus == SortByVersion(records, 1)

\* A test that takes any registered unit defining down() as revertible,
\* whatever its reversible flag says.
CanRevertIgnoresFlag(id) ==
  \E i \in 1..Len(migrations) : migrations[i].id = id /\ migrations[i].down

\* this.migrations.find(m => m.id === id), then the test
\* !migration || !migration.reversible || !migration.down
CanRevert(id) ==
  LET found == { i \in 1..Len(migrations) : migrations[i].id = id }
  IN  /\ found # {}
      /\ LET migration == migrations[CHOOSE i \in found : \A j \in found : i <= j]
         IN  migration.reversible /\ migration.down

\* validateMigrations(pending) returns (TRUE) or throws (FALSE).
ValidateMigrations(pending) ==
  /\ \A i, j \in 1..Len(pending) :
       pending[i].version = pending[j].version => i = j
  /\ \A i \in 1..Len(pending), j \in 1..Len(records) :
       pending[i].version # records[j].version

\* runMigrationBatch(migrations): every unit of the batch is run; a unit whose
\* up or whose insertOne throws is entered in failed and the loop goes on.
RECURSIVE RunMigrationBatch(_, _, _)
RunMigrationBatch(batch, outcome, acc) ==
  IF batch = << >> THEN acc
  ELSE LET migration == Head(batch)
           status    == [ id |-> migration.id, version |-> migration.version ]
       IN  RunMigrationBatch(Tail(batch), outcome,
             IF outcome[migration.id] = "ok"
             THEN [ acc EXCEPT !.result.appliedCount = @ + 1,
                               !.result.applied = Append(@, status),
                               !.inserted = Append(@, status),
                               !.ups = Append(@, migration.id),
                               !.done = @ \cup { migration.id } ]
             ELSE [ acc EXCEPT !.result.failedCount = @ + 1,
                               !.result.failed = Append(@, status),
                               !.ups = Append(@, migration.id),
                               !.done = IF outcome[migration.id] = "storeThrows"
                                        THEN @ \cup { migration.id } ELSE @ ])

\* this.config.maxBatchSize || 10
BatchSize == IF maxBatchSize = 0 THEN DefaultBatchSize ELSE maxBatchSize

\* The batch loop of migrate(), from index i (0-based) on.
RECURSIVE RunBatches(_, _, _, _)
RunBatches(pending, i, outcome, acc) ==
  IF i >= Len(pending) THEN acc
  ELSE LET to     == IF i + BatchSize > Len(pending) THEN Len(pending)
                     ELSE i + BatchSize
           b      == RunMigrationBatch(SubSeq(pending, i + 1, to), outcome, EmptyRun)
           merged == [ acc EXCEPT
                         !.result.appliedCount = @ + b.result.appliedCount,
                         !.result.failedCount = @ + b.result.failedCount,
                         !.result.applied = @ \o b.result.applied,
                         !.result.failed = @ \o b.result.failed,
                         !.result.success = IF b.result.failedCount > 0
                                            THEN FALSE ELSE @,
                         !.inserted = @ \o b.inserted,
                         !.ups = @ \o b.ups,
                         !.done = @ \cup b.done ]
       IN  IF b.result.failedCount > 0 THEN merged
           ELSE RunBatches(pending, i + BatchSize, outcome, merged)

\* The units migrate() finds pending: the registered units, by version, whose
\* id has no bookkeeping document.
PendingMigrations ==
  SelectSeq(GetMigrations,
            LAMBDA m : \A j \in 1..Len(records) : records[j].id # m.id)

\* migrate(); storeDown: ensureMigrationsCollection or getMigrationStatus throws.
MigrateRun(storeDown, outcome) ==
  IF storeDown THEN Caught(EmptyRun, "store", 0)
  ELSE IF PendingMigrations = << >>
  THEN [ EmptyRun EXCEPT !.result.skippedCount = Len(migrations) ]
  ELSE IF validateBeforeRun /\ ~ValidateMigrations(PendingMigrations)
  THEN Caught(EmptyRun, "validation", 0)
  ELSE RunBatches(PendingMigrations, 0, outcome, EmptyRun)

\* One turn of the loop of rollbackTo() on a status document.
RollbackOne(migrationStatus, outcome, acc) ==
  LET id  == migrationStatus.id
      run == [ acc EXCEPT !.tried = Append(@, migrationStatus) ]
  IN  IF ~CanRevert(id)
      THEN [ run EXCEPT !.result.failedCount = @ + 1,
                        !.result.failed = Append(@, migrationStatus) ]
      ELSE IF outcome[id] = "ok"
      THEN [ run EXCEPT !.result.appliedCount = @ + 1,
                        !.result.applied = Append(@, migrationStatus),
                        !.deleted = Append(@, id),
                        !.downs = Append(@, id),
                        !.undone = @ \cup { id } ]
      ELSE [ run EXCEPT !.result.failedCount = @ + 1,
                        !.result.failed = Append(@, migrationStatus),
                        !.downs = Append(@, id),
                        !.undone = IF outcome[id] = "storeThrows"
                                   THEN @ \cup { id } ELSE @ ]

\* The loop of rollbackTo() over migrationsToRollback.
RECURSIVE RollbackEach(_, _, _)
RollbackEach(todo, outcome, acc) ==
  IF todo = << >> THEN acc
  ELSE RollbackEach(Tail(todo), outcome, RollbackOne(Head(todo), outcome, acc))

\* rollbackTo(version); storeDown: getMigrationStatus throws.
RollbackToRun(version, storeDown, outcome) ==
  IF storeDown THEN Caught(EmptyRun, "store", 0)
  ELSE RollbackEach(
         SortByVersion(SelectSeq(GetMigrationStatus,
                                 LAMBDA m : m.version > version), -1),
         outcome, EmptyRun)

\* rollback(); storeDown: getMigrationStatus throws.
RollbackRun(storeDown, outcome) ==
  IF storeDown THEN Caught(EmptyRun, "store", 0)
  ELSE IF GetMigrationStatus = << >>
  THEN [ EmptyRun EXCEPT !.result.skippedCount = 1 ]
  ELSE LET lastMigration == GetMigrationStatus[Len(GetMigrationStatus)]
           id  == lastMigration.id
           run == [ EmptyRun EXCEPT !.tried = << lastMigration >> ]
       IN  IF ~CanRevert(id) THEN Caught(run, "notReversible", id)
           ELSE IF outcome[id] = "actionThrows"
           THEN Caught([ run EXCEPT !.downs = << id >> ], "unit", id)
           ELSE IF outcome[id] = "storeThrows"
           THEN Caught([ run EXCEPT !.downs = << id >>, !.undone = { id } ],
                       "store", id)
           ELSE [ run EXCEPT !.result.appliedCount = 1,
                             !.result.applied = << lastMigration >>,
                             !.deleted = << id >>,
                             !.downs = << id >>,
                             !.undone = { id } ]

\* The bookkeeping collection and the units whose change the database carries
\* after a call: insertOne appends the documents, deleteOne({ id }) removes
\* them; a completed up puts a unit's change in, a completed down takes it out.
Bookkeeping(run) ==
  /\ records' = SelectSeq(records,
                          LAMBDA r : \A i \in 1..Len(run.deleted) :
                                       run.deleted[i] # r.id) \o run.inserted
  /\ upDone' = (upDone \cup run.done) \ run.undone

\* What a call on the manager leaves alone: the MongoSource and its monitor.
sourceVars == << cfgVars, monVars, currentSession, nativeSessions, sinceEnd,
                inflight, last, sent, libVars, regVars >>

RegisteredIds == { migrations[i].id : i \in 1..Len(migrations) }

\* new MongoMigrationManager(soapMongo, config) over the same database.
Restart ==
  /\ migrations # << >>
  /\ migrations' = << >>
  /\ mlast' = NoManagerCall
  /\ UNCHANGED << validateBeforeRun, maxBatchSize, records, upDone, sourceVars >>

\* register(migration)
Register(migration) ==
  /\ Len(migrations) < MaxUnits
  /\ migration.id \notin RegisteredIds
  /\ migrations' = Append(migrations, migration)
  /\ mlast' = [ NoManagerCall EXCEPT !.op = "register", !.arg = migration.version ]
  /\ UNCHANGED << validateBeforeRun, maxBatchSize, records, upDone, sourceVars >>

\* registerMany(migrations)
RegisterMany(many) ==
  /\ Len(migrations) + Len(many) <= MaxUnits
  /\ \A i \in 1..Len(many) :
       /\ many[i].id \notin RegisteredIds
       /\ \A j \in 1..Len(many) : many[i].id = many[j].id => i = j
  /\ migrations' = migrations \o many
  /\ mlast' = [ NoManagerCall EXCEPT !.op = "registerMany", !.arg = Len(many) ]
  /\ UNCHANGED << validateBeforeRun, maxBatchSize, records, upDone, sourceVars >>

\* migrate()
Migrate(storeDown, outcome) ==
  LET run == MigrateRun(storeDown, outcome)
  IN  /\ Bookkeeping(run)
      /\ mlast' = [ op |-> "migrate", arg |-> 0, storeDown |-> storeDown, run |-> run ]
      /\ UNCHANGED << validateBeforeRun, maxBatchSize, migrations, sourceVars >>

\* rollback()
Rollback(storeDown, outcome) ==
  LET run == RollbackRun(storeDown, outcome)
  IN  /\ Bookkeeping(run)
      /\ mlast' = [ op |-> "rollback", arg |-> 0, storeDown |-> storeDown, run |-> run ]
      /\ UNCHANGED << validateBeforeRun, maxBatchSize, migrations, sourceVars >>

\* rollbackTo(version)
RollbackTo(version, storeDown, outcome) ==
  LET run == RollbackToRun(version, storeDown, outcome)
  IN  /\ Bookkeeping(run)
      /\ mlast' = [ op |-> "rollbackTo", arg |-> version, storeDown |-> storeDown,
                    run |-> run ]
      /\ UNCHANGED << validateBeforeRun, maxBatchSize, migrations, sourceVars >>

\* No migration manager in use.
NoManager ==
  /\ validateBeforeRun = FALSE
  /\ maxBatchSize = 0
  /\ migrations = << >>
  /\ records = << >>
  /\ upDone = {}
  /\ mlast = NoManagerCall

\* ------------------------------------------------- the field resolver
\* Objects (entities, documents) are functions from their own keys to values;
\* Object.entries walks the keys in the order of KeyOrder.  A value is a Date
\* or the number of its milliseconds; a key that is not there reads undefined.
Keys     == { "a", "b", "x" }
KeyOrder == << "a", "b", "x" >>
Dates    == { [ type |-> "date", v |-> 1 ], [ type |-> "date", v |-> 2 ] }

UndefinedValue == [ type |-> "undefined", v |-> 0 ]

EmptyObject == [ k \in {} |-> UndefinedValue ]

Get(object, key) == IF key \in DOMAIN object THEN object[key] ELSE UndefinedValue

\* object[key] = value
Put(object, key, value) ==
  [ k \in (DOMAIN object) \cup { key } |-> IF k = key THEN value ELSE object[k] ]

\* MongoTransformers.timestamp: to turns a Date into its number, from a number
\* into its Date; anything else passes through both.
TransformerTo(value) ==
  IF value.type = "date" THEN [ type |-> "number", v |-> value.v ] ELSE value

TransformerFrom(value) ==
  IF value.type = "number" THEN [ type |-> "date", v |-> value.v ] ELSE value

\* A PropertyInfo: the database field name, and whether it has a transformer.
PropertyInfos == [ name : Keys, transformer : BOOLEAN ]

\* The field mappings a resolver is constructed with, over the entity fields
\* a and b.
FieldMappings ==
  UNION { [ fields -> PropertyInfos ] : fields \in SUBSET { "a", "b" } }

Entities == UNION { [ fields -> Dates ] : fields \in SUBSET Keys }

\* getDatabaseFieldName(entityField)
GetDatabaseFieldName(fieldMappings, entityField) ==
  IF entityField \in DOMAIN fieldMappings THEN fieldMappings[entityField].name
  ELSE entityField

\* getEntityFieldName(dbFieldName) is defined: some mapping has that name.
HasEntityFieldName(fieldMappings, dbFieldName) ==
  \E entityField \in DOMAIN fieldMappings :
    fieldMappings[entityField].name = dbFieldName

RECURSIVE ToDocumentFrom(_, _, _, _)
\* The loop of transformToDocument from the i-th key on.
ToDocumentFrom(fieldMappings, entity, i, document) ==
  IF i > Len(KeyOrder) THEN document
  ELSE LET entityField == KeyOrder[i]
           dbFieldName == GetDatabaseFieldName(fieldMappings, entityField)
           transformed ==
             IF entityField \in DOMAIN fieldMappings
                /\ fieldMappings[entityField].transformer
             THEN TransformerTo(entity[entityField])
             ELSE entity[entityField]
       IN  ToDocumentFrom(fieldMappings, entity, i + 1,
                          IF entityField \in DOMAIN entity
                          THEN Put(document, dbFieldName, transformed)
                          ELSE document)

TransformToDocument(fieldMappings, entity) ==
  ToDocumentFrom(fieldMappings, entity, 1, EmptyObject)

RECURSIVE MappedFieldsFrom(_, _, _, _)
\* The first loop of transformToEntity: every mapping sets its entity field.
MappedFieldsFrom(fieldMappings, document, i, entity) ==
  IF i > Len(KeyOrder) THEN entity
  ELSE LET entityField == KeyOrder[i]
           value == Get(document, fieldMappings[entityField].name)
       IN  MappedFieldsFrom(fieldMappings, document, i + 1,
             IF entityField \in DOMAIN fieldMappings
             THEN Put(entity, entityField,
                      IF fieldMappings[entityField].transformer
                      THEN TransformerFrom(value) ELSE value)
             ELSE entity)

RECURSIVE UnmappedFieldsFrom(_, _, _, _)
\* The second loop of transformToEntity: a document field no mapping names
\* goes in under its own name.
UnmappedFieldsFrom(fieldMappings, document, i, entity) ==
  IF i > Len(KeyOrder) THEN entity
  ELSE LET dbFieldName == KeyOrder[i]
       IN  UnmappedFieldsFrom(fieldMappings, document, i + 1,
             IF dbFieldName \in DOMAIN document
                /\ ~HasEntityFieldName(fieldMappings, dbFieldName)
             THEN Put(entity, dbFieldName, document[dbFieldName])
             ELSE entity)

TransformToEntity(fieldMappings, document) ==
  UnmappedFieldsFrom(fieldMappings, document, 1,
                     MappedFieldsFrom(fieldMappings, document, 1, EmptyObject))

\* ------------------------------------------------- stateless components
\* A factory, a parser and a resolver keep nothing between calls, so a
\* behaviour makes one call on one of them, with any arguments.
NoArg == [ op |-> "none" ]
NoRes == [ threw |-> "none" ]

\* What a call on a factory, parser or resolver leaves alone.
libFrame == << cfgVars, monVars, currentSession, nativeSessions, sinceEnd,
              inflight, last, sent, migVars, regVars >>

\* The condition trees a caller builds: leaves, and composites of up to two
\* children that are leaves or composites of one leaf.
LeafOperators     == { "eq", "ne", "in", "between" }
JunctionOperators == { "and", "or", "nor" }

Leaves == { Condition(left, operator, right) :
              left \in Fields, operator \in LeafOperators, right \in Values }

CompositesOf(children) ==
  { VariedCondition(conditions, operator) :
      conditions \in { << a >> : a \in children }
                       \cup { << a, b >> : a \in children, b \in children },
      operator \in JunctionOperators }

ShallowConditions ==
  Leaves \cup { VariedCondition(<< a >>, operator) :
                  a \in Leaves, operator \in JunctionOperators }

Conditions == { NoCondition } \cup Leaves \cup CompositesOf(ShallowConditions)

\* new MongoWhereParser().parse(where)
ParseCall ==
  /\ arg = NoArg
  /\ \E where \in Conditions :
       /\ arg' = [ op |-> "parse", where |-> where ]
       /\ res' = Parse(where)
  /\ UNCHANGED libFrame

\* Arrays of up to MaxItems entries.
ArraysOf(S) == UNION { [ 1..n -> S ] : n \in 0..MaxItems }

EqualityConditions == { Condition(left, "eq", right) : left \in Fields, right \in Values }

\* createUpdateQuery(updates, where, methods)
CreateUpdateQueryCall ==
  /\ arg = NoArg
  /\ \E updates \in ArraysOf(Values), where \in ArraysOf(EqualityConditions),
        methods \in ArraysOf(MethodTags) :
       /\ arg' = [ op |-> "createUpdateQuery", updates |-> updates,
                   where |-> where, methods |-> methods ]
       /\ res' = CreateUpdateQuery(updates, where, methods)
  /\ UNCHANGED libFrame

\* transformToEntity(transformToDocument(entity)) on a resolver with the
\* given mappings.
RoundTripCall ==
  /\ arg = NoArg
  /\ \E fieldMappings \in FieldMappings, entity \in Entities :
       /\ arg' = [ op |-> "roundTrip", fieldMappings |-> fieldMappings,
                   entity |-> entity ]
       /\ res' = [ threw |-> "none",
                   document |-> TransformToDocument(fieldMappings, entity),
                   entity |-> TransformToEntity(fieldMappings,
                               TransformToDocument(fieldMappings, entity)) ]
  /\ UNCHANGED libFrame

\* ------------------------------------------------- the session manager
MaxCreated == 4         \* sessions one MongoSessionManager is asked to create

\* A MongoDatabaseSession: its native session (0: none yet, or none any more),
\* and whether the manager has deleted it.
NewDatabaseSession == [ native |-> 0, deleted |-> FALSE ]

\* session.id: "" (0) without a native session, else the native session's id.
SessionId(session) == session.native

\* this.sessions.set(id, k)
SessionsSet(registry, id, k) == { e \in registry : e.id # id } \cup { [ id |-> id, k |-> k ] }

\* getSession(id): the session registered under id (0: undefined).
GetSession(id) ==
  IF \E e \in sessions : e.id = id
  THEN (CHOOSE e \in sessions : e.id = id).k
  ELSE 0

\* hasSession(id)
HasSession(id) == \E e \in sessions : e.id = id

\* getAllSessions()
GetAllSessions == { e.k : e \in sessions }

\* session.end(): the native session, if there is one, is ended and dropped.
End(session) == [ session EXCEPT !.native = 0 ]

\* What a call on the session manager leaves alone.
regFrame == << cfgVars, monVars, currentSession, nativeSessions, sinceEnd,
              inflight, last, sent, migVars, libVars >>

\* createSession()
CreateSession ==
  /\ Len(created) < MaxCreated
  /\ created' = Append(created, NewDatabaseSession)
  /\ sessions' = SessionsSet(sessions, SessionId(NewDatabaseSession), Len(created) + 1)
  /\ UNCHANGED regFrame

\* session.startTransaction() on a session createSession() returned: the
\* native session is started on first use (the k-th session gets native id k).
SessionStartTransaction(k) ==
  /\ k \in 1..Len(created)
  /\ created[k].native = 0
  /\ ~created[k].deleted
  /\ created' = [ created EXCEPT ![k].native = k ]
  /\ UNCHANGED << sessions, regFrame >>

\* deleteSession(id)
DeleteSession(id) ==
  /\ HasSession(id)
  /\ created' = [ created EXCEPT ![GetSession(id)] =
                    [ End(created[GetSession(id)]) EXCEPT !.deleted = TRUE ] ]
  /\ sessions' = { e \in sessions : e.id # id }
  /\ UNCHANGED regFrame

\* clearSessions()
ClearSessions ==
  /\ sessions # {}
  /\ created' = [ k \in 1..Len(created) |->
                  IF k \in GetAllSessions
                  THEN [ End(created[k]) EXCEPT !.deleted = TRUE ]
                  ELSE created[k] ]
  /\ sessions' = {}
  /\ UNCHANGED regFrame

\* No component is in use beside the MongoSource, its monitor or the manager.
NoComponents ==
  /\ sent = [ c \in Slots |-> NoNative ]
  /\ arg = NoArg
  /\ res = NoRes
  /\ sessions = {}
  /\ created = << >>

\* ------------------------------------------------- the MongoSource
DefaultMaxMetrics == 1000

Init ==
  /\ monitoring \in BOOLEAN
  /\ maxMetrics = DefaultMaxMetrics
  /\ collectorThrows \in (IF monitoring THEN BOOLEAN ELSE { FALSE })
  /\ metrics = << >>
  /\ activeOperations = {}
  /\ nextToken = 1
  /\ collected = << >>
  /\ cleared = {}
  /\ clearedAt = 0
  /\ currentSession = 0
  /\ nativeSessions = << >>
  /\ sinceEnd = 0
  /\ inflight = [ c \in Slots |-> Free ]
  /\ last = NoCall
  /\ NoManager
  /\ NoComponents

\* Every call a caller can make on a MongoSource.
Next ==
  \/ StartSession
  \/ \E c \in Slots : EndSessionCall(c)
  \/ \E c \in Slots : EndSessionDone(c)
  \/ \E c \in Slots : StartTransactionCall(c)
  \/ \E c \in Slots : StartTransactionResume(c)
  \/ CommitTransaction
  \/ RollbackTransaction
  \/ \E c \in Slots : Find(c)
  \/ \E c \in Slots : Count(c)
  \/ \E c \in Slots : Aggregate(c)
  \/ \E c \in Slots : Update(c)
  \/ \E c \in Slots : Insert(c)
  \/ \E c \in Slots : Remove(c)
  \/ \E c \in Slots : Complete(c)
  \/ \E c \in Slots : CompleteInsert(c)
  \/ ClearPerformanceMetrics

Spec == Init /\ [][Next]_vars

\* A MongoSource built without performanceMonitoring options (the blank
\* monitor), driven through its session and transaction lifecycle; calls may
\* overlap at their awaits.
InitSession == Init /\ monitoring = FALSE

NextSession ==
  \/ StartSession
  \/ \E c \in Slots : EndSessionCall(c)
  \/ \E c \in Slots : EndSessionDone(c)
  \/ \E c \in Slots : StartTransactionCall(c)
  \/ \E c \in Slots : StartTransactionResume(c)
  \/ CommitTransaction
  \/ RollbackTransaction

SpecSession == InitSession /\ [][NextSession]_vars

\* The same source, whose caller opens and ends sessions and starts
\* transactions while data operations are issued and settle.
NextAttach ==
  \/ StartSession
  \/ \E c \in Slots : EndSessionCall(c)
  \/ \E c \in Slots : EndSessionDone(c)
  \/ \E c \in Slots : StartTransactionCall(c)
  \/ \E c \in Slots : StartTransactionResume(c)
  \/ \E c \in Slots : Find(c)
  \/ \E c \in Slots : Count(c)
  \/ \E c \in Slots : Aggregate(c)
  \/ \E c \in Slots : Update(c)
  \/ \E c \in Slots : InsertOne(c)
  \/ \E c \in Slots : Remove(c)
  \/ \E c \in Slots : Complete(c)
  \/ \E c \in Slots : CompleteInsert(c)

SpecAttach == InitSession /\ [][NextAttach]_vars

\* A MongoSource built with performanceMonitoring.enabled, whose caller issues
\* data operations concurrently and clears the metrics, and opens no session.
InitMonitored == Init /\ monitoring = TRUE

NextMonitored ==
  \/ \E c \in Slots : Find(c)
  \/ \E c \in Slots : Count(c)
  \/ \E c \in Slots : Aggregate(c)
  \/ \E c \in Slots : Update(c)
  \/ \E c \in Slots : InsertOne(c)
  \/ \E c \in Slots : Remove(c)
  \/ \E c \in Slots : Complete(c)
  \/ \E c \in Slots : CompleteInsert(c)
  \/ ClearPerformanceMetrics

SpecMonitored == InitMonitored /\ [][NextMonitored]_vars

\* insert alone, in batches of up to MaxDocs documents, on either monitor.
NextInsert ==
  \/ \E c \in Slots : Insert(c)
  \/ \E c \in Slots : CompleteInsert(c)

SpecInsert == Init /\ [][NextInsert]_vars

\* ------------------------------------------------- a bare monitor
\* A MongoPerformanceMonitorImpl of any configuration, called directly.
InitMonitor ==
  /\ monitoring \in BOOLEAN
  /\ maxMetrics \in 0..MaxCap
  /\ collectorThrows \in (IF monitoring THEN BOOLEAN ELSE { FALSE })
  /\ metrics = << >>
  /\ activeOperations = {}
  /\ nextToken = 1
  /\ collected = << >>
  /\ cleared = {}
  /\ clearedAt = 0
  /\ currentSession = 0
  /\ nativeSessions = << >>
  /\ sinceEnd = 0
  /\ inflight = [ c \in Slots |-> Free ]
  /\ last = NoCall
  /\ NoManager
  /\ NoComponents

srcVars == << cfgVars, currentSession, nativeSessions, sinceEnd,
             inflight, last, sent, restVars >>

MonitorStart ==
  /\ nextToken <= MaxOps
  /\ \E operation \in DataOps : SetMon(StartOperation(Mon, operation))
  /\ UNCHANGED srcVars

\* endOperation with any token: the empty one (0), a live one, one already
\* ended or cleared; at most MaxOps metrics are recorded in one behaviour.
MonitorEnd ==
  /\ Len(collected) < MaxOps
  /\ \E operationId \in 0..(nextToken - 1), error \in BOOLEAN :
       SetMon(EndOperation(Mon, operationId, error))
  /\ UNCHANGED srcVars

MonitorClear ==
  /\ SetMon(ClearMetrics(Mon))
  /\ UNCHANGED srcVars

NextMonitor == MonitorStart \/ MonitorEnd \/ MonitorClear

SpecMonitor == InitMonitor /\ [][NextMonitor]_vars

\* ------------------------------------------------- a migration manager
\* A manager over an empty database; config.maxBatchSize is left out (0) or 1.
InitManager ==
  /\ validateBeforeRun \in BOOLEAN
  /\ maxBatchSize \in 0..1
  /\ migrations = << >>
  /\ records = << >>
  /\ upDone = {}
  /\ mlast = NoManagerCall

ManagerNext ==
  \/ Restart
  \/ \E migration \in Units : Register(migration)
  \/ \E a, b \in Units : RegisterMany(<< a, b >>)
  \/ \E outcome \in [UnitIds -> Outcomes] : Migrate(FALSE, outcome)
  \/ \E outcome \in [UnitIds -> Outcomes] : Rollback(FALSE, outcome)
  \/ \E version \in 0..MaxUnits, outcome \in [UnitIds -> Outcomes] :
       RollbackTo(version, FALSE, outcome)
  \/ Migrate(TRUE, AllOk)
  \/ Rollback(TRUE, AllOk)
  \/ RollbackTo(0, TRUE, AllOk)

\* A MongoMigrationManager on a database whose MongoSource is idle.
InitMigration ==
  /\ InitManager
  /\ monitoring = FALSE
  /\ maxMetrics = DefaultMaxMetrics
  /\ collectorThrows = FALSE
  /\ metrics = << >>
  /\ activeOperations = {}
  /\ nextToken = 1
  /\ collected = << >>
  /\ cleared = {}
  /\ clearedAt = 0
  /\ currentSession = 0
  /\ nativeSessions = << >>
  /\ sinceEnd = 0
  /\ inflight = [ c \in Slots |-> Free ]
  /\ last = NoCall
  /\ NoComponents

SpecMigration == InitMigration /\ [][ManagerNext]_vars

\* The forward path: units are registered, one by one or several at once,
\* and migrate() is run any number of times; nothing is rolled back, so the
\* units' reverse side plays no part and every unit is a reversible one.
ReversibleUnits == { m \in Units : m.reversible /\ m.down }

NextMigrate ==
  \/ Restart
  \/ \E migration \in ReversibleUnits : Register(migration)
  \/ \E a, b \in ReversibleUnits : RegisterMany(<< a, b >>)
  \/ \E outcome \in [UnitIds -> Outcomes] : Migrate(FALSE, outcome)
  \/ Migrate(TRUE, AllOk)

SpecMigrate == InitMigration /\ [][NextMigrate]_vars

\* The backward path, under the default MigrationConfig: units of every kind
\* are registered, applied and rolled back, one at a time or down to a version.
InitRollback == InitMigration /\ validateBeforeRun = FALSE /\ maxBatchSize = 0

NextRollback ==
  \/ Restart
  \/ \E migration \in Units : Register(migration)
  \/ \E outcome \in [UnitIds -> Outcomes] : Migrate(FALSE, outcome)
  \/ \E outcome \in [UnitIds -> Outcomes] : Rollback(FALSE, outcome)
  \/ \E version \in 0..MaxUnits, outcome \in [UnitIds -> Outcomes] :
       RollbackTo(version, FALSE, outcome)
  \/ Rollback(TRUE, AllOk)
  \/ RollbackTo(0, TRUE, AllOk)

SpecRollback == InitRollback /\ [][NextRollback]_vars

\* Every call that can fail, under any MigrationConfig, with each of its
\* failures: a unit's up or down action, validation, a bookkeeping-store call.
NextFailures ==
  \/ Restart
  \/ \E migration \in ReversibleUnits : Register(migration)
  \/ \E outcome \in [UnitIds -> Outcomes] : Migrate(FALSE, outcome)
  \/ \E outcome \in [UnitIds -> Outcomes] : Rollback(FALSE, outcome)
  \/ \E version \in 0..MaxUnits, outcome \in [UnitIds -> Outcomes] :
       RollbackTo(version, FALSE, outcome)
  \/ Migrate(TRUE, AllOk)
  \/ Rollback(TRUE, AllOk)
  \/ RollbackTo(0, TRUE, AllOk)

SpecFailures == InitMigration /\ [][NextFailures]_vars

\* ------------------------------------------------- an update workload
\* The updates a caller issues: the { where, update } format, and parallel
\* arrays of one or two items with any method tag.
MaxBatch == 2           \* items in the arrays of one update

UpdateQueries ==
  { DbQuery("whereUpdate", << update >>, << where >>, << >>) :
      update \in Values, where \in EqualityConditions }
  \cup UNION { { DbQuery("params", updates, where, methods) :
                   updates \in [ 1..n -> Values ],
                   where \in [ 1..n -> EqualityConditions ],
                   methods \in [ 1..n -> MethodTags ] } : n \in 1..MaxBatch }

\* A MongoSource without monitoring or session, used for updates only, each
\* awaited before the next.
NextUpdate ==
  \/ \E c \in Slots :
       /\ \A d \in Slots : inflight[d].op = "none"
       /\ UpdateWith(c, UpdateQueries)
  \/ \E c \in Slots : Complete(c)

SpecUpdate == InitSession /\ [][NextUpdate]_vars

\* ------------------------------------------------- component workloads
\* A where parser, a query factory and a field resolver, each called on its own.
SpecParse == InitSession /\ [][ParseCall]_vars

SpecFactory == InitSession /\ [][CreateUpdateQueryCall]_vars

SpecResolver == InitSession /\ [][RoundTripCall]_vars

\* A MongoSessionManager: sessions are created, used and torn down.
NextRegistry ==
  \/ CreateSession
  \/ \E k \in 1..MaxCreated : SessionStartTransaction(k)
  \/ \E id \in 0..MaxCreated : DeleteSession(id)
  \/ ClearSessions

SpecRegistry == InitSession /\ [][NextRegistry]_vars

\* ================================================= properties

\* C1: startTransaction() called while a transaction is in progress on the
\* current session fails with a PendingSessionError, and the session and its
\* transaction are left in place.
ActiveTransactionIsPendingSessionError ==
  (last.op = "startTransaction" /\ last.preTxn = "IN_PROGRESS") =>
    /\ last.result = "PendingSessionError"
    /\ currentSession = last.pre
    /\ TxnOf(last.pre) = "IN_PROGRESS"

\* C2: with monitoring enabled every find, count, aggregate, update, insert or
\* remove call that has returned or thrown has recorded exactly one metric, a
\* call still in flight has recorded none, and the metric's success flag tells
\* whether the call returned (calls whose timer clearPerformanceMetrics()
\* discarded while they were in flight are left aside).
OneMetricPerCall ==
  /\ \A t \in 1..(nextToken - 1) :
       t \notin cleared =>
         Cardinality({ i \in 1..Len(collected) : collected[i].id = t }) =
           IF \E c \in Slots : inflight[c].op \in DataOps /\ inflight[c].token = t
           THEN 0 ELSE 1
  /\ (last.op \in DataOps /\ last.token \notin cleared) =>
       \A i \in 1..Len(collected) :
         collected[i].id = last.token =>
           /\ collected[i].operation = last.op
           /\ collected[i].success = (last.result = "ok")

\* C3: when an ordered insert fails with per-item write errors, the inserted
\* documents are exactly those before the first failing index and the failed
\* documents are all those from the first failing index to the end of the batch.
OrderedInsertPartition ==
  (last.op = "insert" /\ last.ordered /\ last.err.writeErrors # << >>) =>
    LET first == last.err.writeErrors[1]
    IN  /\ last.inserted = [ i \in 1..first |-> i - 1 ]
        /\ last.failed = [ i \in 1..(last.n - first) |-> first + i - 1 ]

\* C4: when an unordered insert fails with per-item write errors, the failed
\* documents are exactly those at the indices the store flagged and the
\* inserted documents are exactly the others; the lists are disjoint and
\* cover the batch.
UnorderedInsertPartition ==
  (last.op = "insert" /\ ~last.ordered /\ last.err.writeErrors # << >>) =>
    LET flagged == { last.err.writeErrors[i] : i \in 1..Len(last.err.writeErrors) }
    IN  /\ { last.failed[i] : i \in 1..Len(last.failed) } = flagged
        /\ Len(last.failed) = Cardinality(flagged)
        /\ { last.inserted[i] : i \in 1..Len(last.inserted) } =
             (0..(last.n - 1)) \ flagged
        /\ Len(last.inserted) = last.n - Cardinality(flagged)

\* C5: commitTransaction() and rollbackTransaction() called when no
\* transaction has been started (no session, or a session without a
\* transaction) complete without raising and leave the session state as it was.
CommitRollbackNoOpWithoutTransaction ==
  ( /\ last.op \in { "commitTransaction", "rollbackTransaction" }
    /\ last.preTxn \in { "NONE", "NO_TRANSACTION" } ) =>
      /\ last.result = "ok"
      /\ currentSession = last.pre
      /\ TxnOf(currentSession) = last.preTxn

\* C6 (as stated): every native data call is handed the session that was
\* current when it was issued, and no session when none was current.
NativeCallSessionIsCurrentSession ==
  \A c \in Slots :
    inflight[c].op \in DataOps => inflight[c].sess = inflight[c].cur

\* C6 (amended): every native data call issued while the source has a current
\* session is handed that session; one issued without a current session is
\* handed no session by the source, so that it carries none unless it is an
\* insert whose caller put a session into query.options.
NativeCallSessionIsCurrentOrCallers ==
  \A c \in Slots :
    inflight[c].op \in DataOps =>
      inflight[c].sess =
        IF inflight[c].cur # 0 THEN inflight[c].cur
        ELSE IF inflight[c].op = "insert" THEN inflight[c].opt ELSE 0

\* C6 witness: a native call issued within the session is pending together
\* with one issued after the session was ended, which carries no session.
CallsWithAndWithoutSession ==
  \E c, d \in Slots :
    /\ inflight[c].op \in DataOps /\ inflight[c].sess > 0
    /\ inflight[d].op \in DataOps /\ inflight[d].sess = 0
    /\ currentSession = 0

\* C7: startSession() is idempotent: between two completed endSession() calls
\* the client's startSession is invoked at most once, every startSession()
\* call succeeds and returns the current session, and a call made while a
\* session is open returns that session.
StartSessionIdempotent ==
  /\ sinceEnd <= 1
  /\ last.op = "startSession" =>
       /\ last.result = "ok"
       /\ last.ret = currentSession
       /\ sinceEnd = 1
       /\ (last.pre # 0 => last.ret = last.pre)

\* C7 witness: startSession() has returned from a call made with a session open.
StartSessionReused == last.op = "startSession" /\ last.pre # 0

\* C8: endSession() takes the source to Idle from any state: when it completes
\* there is no current session and the native session that was current when it
\* was called has been ended; a startSession() made from Idle creates a fresh
\* native session; and endSession() from Idle changes nothing.
EndSessionToIdle ==
  /\ [](last.op = "endSession" =>
         /\ last.result = "ok"
         /\ currentSession = 0
         /\ (last.pre # 0 => nativeSessions[last.pre].ended))
  /\ [](( last.op = "startSession" /\ last.pre = 0 ) =>
         /\ last.ret = Len(nativeSessions)
         /\ nativeSessions[last.ret] = NewNativeSession)
  /\ [][ ( last'.op = "endSession" /\ last'.pre = 0 ) =>
           UNCHANGED << currentSession, nativeSessions, inflight >> ]_vars

\* C8 witness: endSession() has completed on a session whose transaction was in
\* progress, which the driver aborted.
EndSessionFromTransactionActive ==
  /\ last.op = "endSession"
  /\ last.pre # 0
  /\ nativeSessions[last.pre].txn = "ABORTED"
  /\ currentSession = 0

\* C9: an error thrown by the store is re-raised as a CollectionError
\* classified by its code: 11000 as a duplicate error, 121 as an invalid-data
\* error, any other as a generic CollectionError.
StoreErrorClassifiedByCode ==
  (last.op \in DataOps /\ last.err # NoError /\ last.err # LocalError) =>
    last.result = IF last.err.code = DuplicateKeyCode THEN "DuplicateError"
                  ELSE IF last.err.code = InvalidDataCode THEN "InvalidDataError"
                  ELSE "CollectionError"

\* C10: the monitor never retains more than maxMetrics metrics, whatever
\* maxMetrics it is configured with.
RetainedWithinMaxMetrics == Len(GetMetrics) <= maxMetrics

\* C11: the monitor evicts oldest-first: when n operations have completed
\* since the last clear, getMetrics() is exactly the most recent
\* min(n, maxMetrics) of them, in completion order.
RetainedAreMostRecent ==
  monitoring =>
    LET n == Len(collected) - clearedAt
        k == IF n < maxMetrics THEN n ELSE maxMetrics
    IN  GetMetrics = SubSeq(collected, Len(collected) - k + 1, Len(collected))

DisabledMonitorRecordsNothing ==
  ~monitoring =>
    /\ OperationId(Mon) = 0
    /\ \A c \in Slots : inflight[c].token = 0
    /\ last.token = 0
    /\ GetMetrics = << >>
    /\ activeOperations = {}
    /\ collected = << >>
    /\ nextToken = 1

\* C13 witness: on a source without monitoring an insert has returned while
\* another is pending at the store.
DisabledMonitorUsed ==
  /\ ~monitoring
  /\ last.op = "insert" /\ last.result = "ok"
  /\ \E c \in Slots : inflight[c].op = "insert"

\* C14: the registered units always have pairwise distinct versions (register
\* and registerMany are to reject a unit whose version is already registered).
RegisteredVersionsDistinct ==
  \A i, j \in 1..Len(migrations) :
    migrations[i].version = migrations[j].version => i = j

\* The status documents, applied or failed, of the units whose up action the
\* latest call invoked.
RanUp ==
  { r \in { mlast.run.result.applied[i] : i \in 1..Len(mlast.run.result.applied) }
          \cup { mlast.run.result.failed[i] : i \in 1..Len(mlast.run.result.failed) } :
      \E k \in 1..Len(mlast.run.ups) : mlast.run.ups[k] = r.id }

\* C15: migrate() invokes the up actions in ascending version order and halts
\* at the first unit that fails: no unit with a higher version than a failed
\* unit has its up action invoked in that run, whatever the batch size, and
\* the result then reports success = false with the units applied before.
MigrateHaltsAtFirstFailure ==
  mlast.op = "migrate" =>
    LET result == mlast.run.result
    IN  /\ \A i, j \in 1..Len(mlast.run.ups) :
             i < j => \E a, b \in RanUp : /\ a.id = mlast.run.ups[i]
                                          /\ b.id = mlast.run.ups[j]
                                          /\ a.version <= b.version
        /\ \A i \in 1..Len(result.failed) :
             /\ result.success = FALSE
             /\ \A r \in RanUp : r.version <= result.failed[i].version
             /\ \A k \in 1..Len(result.applied) :
                  result.applied[k].version <= result.failed[i].version

\* With one unit to a batch the run does halt at the first failure.
SingleUnitBatchesHalt == maxBatchSize = 1 => MigrateHaltsAtFirstFailure

\* A run that follows a fully successful run over the same registered set
\* applies nothing and skips every registered unit.
SecondRunSkipsAll ==
  [][ ( /\ mlast.op = "migrate"
        /\ mlast.run.result.success
        /\ mlast'.op = "migrate"
        /\ mlast'.run.result.error = NoMigrationError )
      => /\ mlast'.run.result.appliedCount = 0
         /\ mlast'.run.result.skippedCount = Len(migrations) ]_vars

\* C16: over any number of migrate() runs with no rollback in between, each
\* unit's up action takes effect at most once: a run never invokes the up
\* action of a unit whose up action has already run to completion, and a run
\* that follows a fully successful run over the same registered set reports
\* appliedCount = 0 with every registered unit skipped.
UpTakesEffectAtMostOnce ==
  /\ [][ mlast'.op = "migrate" =>
           /\ mlast'.run.done \cap upDone = {}
           /\ \A k \in 1..Len(mlast'.run.ups) : mlast'.run.ups[k] \notin upDone ]_vars
  /\ SecondRunSkipsAll

\* C17: a successful rollback() reverts exactly one unit, the one applied
\* most recently (the last document entered in the bookkeeping collection),
\* whatever the order of registration and application: it invokes that
\* unit's down action once and removes that unit's record only.
RollbackRevertsMostRecent ==
  [][ ( /\ mlast'.op = "rollback"
        /\ mlast'.run.result.success
        /\ records # << >> )
      => /\ mlast'.run.downs = << records[Len(records)].id >>
         /\ records' = SubSeq(records, 1, Len(records) - 1) ]_vars

\* What does hold: the unit reverted is the recorded one of highest version.
RollbackRevertsHighestVersion ==
  [][ ( /\ mlast'.op = "rollback"
        /\ mlast'.run.result.success
        /\ records # << >> )
      => \E i \in 1..Len(records) :
           /\ \A j \in 1..Len(records) : records[j].version <= records[i].version
           /\ mlast'.run.downs = << records[i].id >>
           /\ records' = SubSeq(records, 1, i - 1) \o SubSeq(records, i + 1, Len(records)) ]_vars

\* The registered unit the latest rollback() selected is marked non-reversible
\* or defines no down action.
SelectedNotRevertible(call) ==
  /\ call.op = "rollback"
  /\ call.run.tried # << >>
  /\ \E i \in 1..Len(migrations) :
       /\ migrations[i].id = call.run.tried[1].id
       /\ ~migrations[i].reversible \/ ~migrations[i].down

\* C18: when the unit rollback() selects is marked non-reversible or defines
\* no down action, rollback() reports success = false with an error naming
\* that unit, invokes no down action and leaves the bookkeeping collection as
\* it was (the unit stays recorded as applied).
NonReversibleRollbackRefused ==
  [][ SelectedNotRevertible(mlast') =>
        /\ mlast'.run.result.success = FALSE
        /\ mlast'.run.result.error =
             [ kind |-> "notReversible", id |-> mlast'.run.tried[1].id ]
        /\ mlast'.run.downs = << >>
        /\ records' = records
        /\ upDone' = upDone
        /\ \E j \in 1..Len(records') : records'[j] = mlast'.run.tried[1] ]_vars

\* rollback() has just refused a recorded unit that is registered without a
\* down action, two units being recorded as applied.
RollbackRefusedNoDown ==
  /\ SelectedNotRevertible(mlast)
  /\ mlast.run.result.error.kind = "notReversible"
  /\ \E i \in 1..Len(migrations) :
       migrations[i].id = mlast.run.tried[1].id /\ ~migrations[i].down
  /\ Len(records) = 2

\* A step in which rollbackTo(version) has read the bookkeeping collection.
RollbackToStep ==
  /\ mlast'.op = "rollbackTo"
  /\ mlast'.run.result.error = NoMigrationError

\* The documents of the units applied above the version asked for.
AboveTarget == { r \in { records[i] : i \in 1..Len(records) } : r.version > mlast'.arg }

\* rollbackTo(v) goes once through every applied unit with version > v and
\* through no other; a unit that cannot be reverted (non-reversible, without
\* down, unregistered, or whose down action throws) is entered in failed, one
\* entry each, and the others are still gone through; the units with
\* version <= v are untouched; when no unit fails no record above v remains.
RollbackToCoversAbove ==
  LET run     == mlast'.run
      tried   == { run.tried[i] : i \in 1..Len(run.tried) }
      applied == { run.result.applied[i] : i \in 1..Len(run.result.applied) }
      failed  == { run.result.failed[i] : i \in 1..Len(run.result.failed) }
      after   == { records'[i] : i \in 1..Len(records') }
  IN  /\ tried = AboveTarget
      /\ Len(run.tried) = Cardinality(AboveTarget)
      /\ applied \cup failed = tried
      /\ applied \cap failed = {}
      /\ Len(run.result.failed) = Cardinality(failed)
      /\ run.result.failedCount = Cardinality(failed)
      /\ \A t \in tried :
           \/ ~CanRevert(t.id)
           \/ \E k \in 1..Len(run.downs) : run.downs[k] = t.id /\ t.id \notin run.undone
           => t \in failed
      /\ \A k \in 1..Len(run.downs) : \E t \in tried : t.id = run.downs[k]
      /\ \A i \in 1..Len(records) :
           records[i].version <= mlast'.arg =>
             /\ records[i] \in after
             /\ (records[i].id \in upDone') = (records[i].id \in upDone)
      /\ \A r \in after : \E i \in 1..Len(records) : records[i] = r
      /\ run.result.failedCount = 0 => \A r \in after : r.version <= mlast'.arg

\* C19: rollbackTo(v) attempts to revert every applied unit with version > v
\* in strictly descending version order; a unit that cannot be reverted is
\* reported individually in failed without stopping the remaining units; the
\* units with version <= v are untouched, and when no unit fails no
\* bookkeeping record with version > v remains.
RollbackToStrictlyDescending ==
  [][ RollbackToStep =>
        /\ RollbackToCoversAbove
        /\ \A i, j \in 1..Len(mlast'.run.tried) :
             i < j => mlast'.run.tried[i].version > mlast'.run.tried[j].version ]_vars

\* What does hold: a unit is never attempted after one of lower version.
RollbackToHighestFirst ==
  [][ RollbackToStep =>
        /\ RollbackToCoversAbove
        /\ \A i, j \in 1..Len(mlast'.run.tried) :
             i < j => mlast'.run.tried[i].version >= mlast'.run.tried[j].version ]_vars

\* The ids of the status documents in a list of a MigrationResult.
StatusIds(list) == { list[i].id : i \in 1..Len(list) }

\* C20: migrate(), rollback() and rollbackTo() return a MigrationResult
\* whatever fails: a bookkeeping-store call or validation that throws gives
\* success = false with the error; a unit whose up action or whose insertOne
\* throws is entered in failed with success = false; a unit whose down action
\* or whose deleteOne throws is entered in failed (rollbackTo) or gives
\* success = false with the error (rollback); and the units applied (or
\* reverted) before the failure are reported in applied, no more and no less.
FailuresAreReturned ==
  [][ LET run    == mlast'.run
          result == run.result
          broken == { u \in UnitIds :
                        \/ \E k \in 1..Len(run.ups) :
                             /\ run.ups[k] = u
                             /\ u \notin run.done \/ u \notin StatusIds(run.inserted)
                        \/ \E k \in 1..Len(run.downs) :
                             /\ run.downs[k] = u
                             /\ u \notin run.undone
                                  \/ \A d \in 1..Len(run.deleted) : run.deleted[d] # u }
      IN  mlast'.op \in { "migrate", "rollback", "rollbackTo" } =>
            /\ result.appliedCount = Len(result.applied)
            /\ result.failedCount = Len(result.failed)
            /\ mlast'.storeDown =>
                 result.success = FALSE /\ result.error.kind = "store"
            /\ ( /\ mlast'.op = "migrate"
                 /\ ~mlast'.storeDown
                 /\ validateBeforeRun
                 /\ PendingMigrations # << >>
                 /\ ~ValidateMigrations(PendingMigrations) )
               => /\ result.success = FALSE
                  /\ result.error.kind = "validation"
                  /\ run.ups = << >>
            /\ mlast'.op = "migrate" =>
                 /\ broken \subseteq StatusIds(result.failed)
                 /\ broken # {} => result.success = FALSE
                 /\ result.applied = run.inserted
            /\ mlast'.op = "rollbackTo" =>
                 /\ broken \subseteq StatusIds(result.failed)
                 /\ StatusIds(result.applied) = { run.deleted[d] : d \in 1..Len(run.deleted) }
            /\ mlast'.op = "rollback" =>
                 /\ broken # {} =>
                      /\ result.success = FALSE
                      /\ result.error.kind \in { "unit", "store" }
                      /\ result.error.id \in broken
                 /\ StatusIds(result.applied) = { run.deleted[d] : d \in 1..Len(run.deleted) }
            /\ records' = SelectSeq(records,
                                    LAMBDA r : r.id \notin StatusIds(result.applied)
                                               \/ mlast'.op = "migrate")
                          \o (IF mlast'.op = "migrate" THEN result.applied ELSE << >>)
    ]_vars

\* migrate() has applied one unit and then failed on the next, of higher
\* version, in the same run.
MigrateFailedAfterApplying ==
  /\ mlast.op = "migrate"
  /\ mlast.run.result.success = FALSE
  /\ Len(mlast.run.result.applied) = 1
  /\ Len(mlast.run.result.failed) = 1
  /\ mlast.run.result.applied[1].version < mlast.run.result.failed[1].version
  /\ mlast.run.ups = << mlast.run.result.applied[1].id, mlast.run.result.failed[1].id >>

\* C30: in every MigrationResult returned by migrate(), rollback() or
\* rollbackTo(), success is false whenever failedCount > 0 or error is set,
\* appliedCount is the length of applied and failedCount the length of failed.
ResultIsConsistent ==
  mlast.op \in { "migrate", "rollback", "rollbackTo" } =>
    LET result == mlast.run.result
    IN  /\ (result.failedCount > 0 \/ result.error # NoMigrationError)
             => result.success = FALSE
        /\ result.appliedCount = Len(result.applied)
        /\ result.failedCount = Len(result.failed)

\* What does hold: the same, rollbackTo()'s success flag left aside.
ResultIsConsistentButRollbackTo ==
  mlast.op \in { "migrate", "rollback", "rollbackTo" } =>
    LET result == mlast.run.result
    IN  /\ ( /\ result.failedCount > 0 \/ result.error # NoMigrationError
             /\ mlast.op # "rollbackTo" \/ result.error # NoMigrationError )
             => result.success = FALSE
        /\ result.appliedCount = Len(result.applied)
        /\ result.failedCount = Len(result.failed)

\* C29: clearMetrics() resets the monitor completely: getMetrics() holds
\* nothing but metrics recorded since the latest clear (so it is empty right
\* after it), and an operation started before a clear and ended after it adds
\* no metric and triggers no collector call: a metric of an operation that a
\* clear dropped was recorded before that clear, and no dropped operation is
\* active.
ClearResetsMonitor ==
  monitoring =>
    /\ Len(GetMetrics) <= Len(collected) - clearedAt
    /\ GetMetrics = SubSeq(collected, Len(collected) - Len(GetMetrics) + 1,
                           Len(collected))
    /\ \A i \in 1..Len(collected) : collected[i].id \in cleared => i <= clearedAt
    /\ \A a \in activeOperations : a.id \notin cleared

\* Operations were dropped by a clear while in flight, and an operation has
\* been recorded since.
RecordedAfterClear ==
  /\ monitoring
  /\ cleared # {}
  /\ Len(GetMetrics) = 1
  /\ Len(collected) = clearedAt + 1
  /\ collected[Len(collected)].id \notin cleared

\* The native sessions the source has created and not ended.
OpenSessions == { s \in 1..Len(nativeSessions) : ~nativeSessions[s].ended }

\* Every native session has been ended once the source is Idle (no current
\* session) with no call in flight.
NoSessionOrphaned ==
  (currentSession = 0 /\ \A c \in Slots : inflight[c].op = "none")
    => OpenSessions = {}

\* C26: under every interleaving of startSession, startTransaction,
\* endSession and data operations on one MongoSource, calls overlapping at
\* their awaits included, the source holds at most one open native session,
\* its current session when set has not been ended, and no native session is
\* left open once the source is Idle with no call in flight.
OneSessionNeverOrphaned ==
  /\ Cardinality(OpenSessions) <= 1
  /\ currentSession # 0 => ~nativeSessions[currentSession].ended
  /\ NoSessionOrphaned

\* The three arrays handed to createUpdateQuery have one length.
SameLengths(updates, where, methods) ==
  Len(updates) = Len(where) /\ Len(where) = Len(methods)

\* C21: createUpdateQuery raises InconsistentUpdateParamsError whenever the
\* three arrays do not all have the same length, whatever the lengths (a
\* methods array of zero or one entry included), before any condition is
\* compiled or any descriptor returned.
MismatchedLengthsAreInconsistent ==
  (arg.op = "createUpdateQuery"
   /\ ~SameLengths(arg.updates, arg.where, arg.methods))
    => (res.threw = "InconsistentUpdateParamsError" /\ res.items = << >>)

\* C22: createUpdateQuery raises UnknownUpdateMethodError for any entry of
\* methods that is neither UpdateOne nor UpdateMany, in the single-item case
\* and at every position of a batch, and emits no operation for such an entry.
UnknownMethodIsRefused ==
  (arg.op = "createUpdateQuery"
   /\ SameLengths(arg.updates, arg.where, arg.methods)
   /\ \E i \in 1..Len(arg.methods) : arg.methods[i] \notin UpdateMethods)
    => (res.threw = "UnknownUpdateMethodError" /\ res.items = << >>)

\* The operators createCondition has a case for.
MappedOperators == { "eq", "ne", "gt", "gte", "lt", "lte", "in", "nin", "like" }

RECURSIVE HasUnsupported(_)
\* The tree holds a leaf with an operator that has no case, or a composite
\* whose junction is neither and nor or.
HasUnsupported(condition) ==
  CASE condition.kind = "condition" -> condition.operator \notin MappedOperators
    [] condition.kind = "varied" ->
         \/ condition.operator \notin { "and", "or" }
         \/ \E i \in 1..Len(condition.conditions) :
              HasUnsupported(condition.conditions[i])
    [] OTHER -> FALSE

\* C23: compiling a condition tree that holds, at any depth, a leaf with an
\* unmapped operator or a composite with a junction outside {and, or} fails
\* with UnsupportedOperatorError; no filter is returned for such a tree.
UnsupportedOperatorIsRefused ==
  (arg.op = "parse" /\ HasUnsupported(arg.where))
    => res.threw = "UnsupportedOperatorError"

\* update() was called with one item of the given method.
SingleItem(query, method) ==
  /\ query.format = "params"
  /\ SameLengths(query.updates, query.where, query.methods)
  /\ query.methods = << method >>

\* What the collection holds after the call it was handed: a refused call
\* changes nothing.
Stored(docs, native) ==
  IF NoError \in UpdateAnswers(native)
  THEN StoreUpdate(docs, native.method, native.filter, native.update, native.upsert)
  ELSE [ documents |-> docs, modified |-> {} ]

\* C24: update with a single UpdateOne item issues the native update-one call
\* and modifies at most one document even when several match; with UpdateMany
\* every matching document is modified; with exactly one matching document
\* modifiedCount is 1 and nothing matches the old value afterwards.
UpdateOneModifiesAtMostOne ==
  \A c \in Slots :
    LET native == sent[c]
        query  == native.query
        filter == Parse(query.where[1]).filter
    IN  /\ SingleItem(query, "UpdateOne") =>
             /\ native.method = "updateOne"
             /\ \A docs \in Collections :
                  Cardinality(Stored(docs, native).modified) <= 1
        /\ SingleItem(query, "UpdateMany") =>
             \A docs \in Collections :
               Stored(docs, native).modified =
                 { i \in Matched(docs, filter) : docs[i] # query.updates[1] }
        /\ ((SingleItem(query, "UpdateOne") \/ SingleItem(query, "UpdateMany"))
            /\ query.updates[1] # query.where[1].right) =>
             \A docs \in Collections :
               Cardinality(Matched(docs, filter)) = 1 =>
                 /\ Cardinality(Stored(docs, native).modified) = 1
                 /\ Matched(Stored(docs, native).documents, filter) = {}

\* update() was called with several items, each with a method the factory knows.
BatchOfItems(query) ==
  /\ query.format = "params"
  /\ SameLengths(query.updates, query.where, query.methods)
  /\ Len(query.methods) > 1
  /\ \A i \in 1..Len(query.methods) : query.methods[i] \in UpdateMethods

\* C27: update with N > 1 items applies item i's update to the documents
\* matching item i's filter, each item on its own; documents matching none of
\* the filters are left as they are and the store is never handed an empty
\* filter.
BatchAppliesEachItem ==
  \A c \in Slots :
    (sent[c].method # "none" /\ BatchOfItems(sent[c].query)) =>
      /\ sent[c].filter # MatchAll
      /\ \A docs \in Collections :
           Stored(docs, sent[c]).documents =
             BulkWrite(docs, CreateUpdateQuery(sent[c].query.updates,
                                               sent[c].query.where,
                                               sent[c].query.methods).items)

\* C25: for every entity and every mapping set with symmetric transformers,
\* transformToEntity(transformToDocument(e)) equals e: mapped fields come back
\* under their domain name with their value, unmapped fields pass through,
\* and mapped fields absent from e are not introduced.
RoundTripRestoresEntity ==
  arg.op = "roundTrip" => res.entity = arg.entity

\* C28: every session createSession() made and the manager has not deleted is
\* in getAllSessions and is found by getSession and hasSession under its id,
\* and a session the manager deleted or cleared has been ended; for any number
\* of sessions, several created before any transaction included.
EverySessionTracked ==
  \A k \in 1..Len(created) :
    IF created[k].deleted
    THEN created[k].native = 0
    ELSE /\ k \in GetAllSessions
         /\ HasSession(SessionId(created[k]))
         /\ GetSession(SessionId(created[k])) = k

\* The object without the keys that hold undefined.
Defined(object) ==
  [ k \in { j \in DOMAIN object : object[j] # UndefinedValue } |-> object[k] ]

\* No two keys share a database field name under the mappings.
DistinctDatabaseNames(fieldMappings) ==
  \A j, k \in Keys :
    GetDatabaseFieldName(fieldMappings, j) = GetDatabaseFieldName(fieldMappings, k)
      => j = k

\* What the round trip does restore: when the mappings give every key a
\* database name of its own, the fields of e come back with their values,
\* next to a key holding undefined for each mapped field e does not have.
RoundTripRestoresPresentFields ==
  (arg.op = "roundTrip" /\ DistinctDatabaseNames(arg.fieldMappings))
    => Defined(res.entity) = arg.entity

====
